---- MODULE Spec2Model ----
(***************************************************************************)
(* Model of tests/test_linux/pr2test/context_manager.py: NDBContextManager *)
(* (the cleanup registries, the IPAM pools, teardown) with the kernel and  *)
(* the network allocator as its environment.                               *)
(* The guards skip_if_not_implemented and skip_if_not_supported are         *)
(* functions from the way the wrapped test function ends to the way the    *)
(* wrapper ends.                                                           *)
(*                                                                         *)
(* Names (interfaces, namespaces) and network blocks are positive          *)
(* integers; None is 0.  An address is the pair <<block, k>>: the k-th     *)
(* element of the block.                                                   *)
(***************************************************************************)
EXTENDS Integers, Sequences, FiniteSets, TLC

\* ---------------------------------------------------------------- bounds
\* operations of the test bodies: register / register_netns / register_rule
\* calls and interface creations
MaxOps == 2
\* register_network calls of the test bodies
MaxRegisterNetwork == 2
\* get_ip6addr calls of one test body
MaxIp6Calls == 2
\* addresses in one IPv4 block (256 for the /24 blocks of the allocator)
BlockSize == 2
\* contexts built one after the other in one process
MaxContexts == 2
\* guards stacked on one test function
MaxGuards == 2

\* ------------------------------------------------------ program constants
None == 0
AF_INET == 2
AF_INET6 == 10
ENODEV == 19
ENOENT == 2
EPERM == 1
EOPNOTSUPP == 95
Ip6CounterStart == 1024
NumIpnets == 3
LoIndex == 1
\* the names a test body supplies: 'lo' for an interface, another one for a
\* namespace; generated names follow
LoName == 1
OtherName == LoName + 1
\* the rule specs a test body registers
RuleSpecs == {1}

Families == {AF_INET, AF_INET6}
NetlinkCodes == {ENODEV, ENOENT, EPERM}

VARIABLES
    pc,                 \* position: "test", a teardown step, "done", "raised"
    interfaces,         \* self.interfaces: dict ifname -> netns, in insertion order
    namespaces,         \* self.namespaces: dict netns -> None, in insertion order
    rules,              \* self.rules: list of (netns, spec)
    netns,              \* self.netns
    request_target,     \* request.param.target: the target mode
    default_interface,  \* self.default_interface
    db_provider,        \* self.db_provider
    root,               \* getpass.getuser() == 'root'
    ipnets,             \* self.ipnets
    ipranges,           \* self.ipranges
    ip6net,             \* self.ip6net
    ip6counter,         \* next value of self.ip6counter
    allocated_networks, \* self.allocated_networks
    network_pool,       \* the allocator's free blocks, by family
    links,              \* kernel: the interfaces that exist, <<netns, ifname>>
    idx,                \* teardown: index of the current loop entry
    sub,                \* teardown: position inside the loop body
    ipr,                \* teardown: the per-iteration handle (NoHandle: None)
    exc,                \* the exception teardown raised, if any
    uid,                \* names generated so far in this process
    ctx,                \* the number of the current context
    ops,                \* test body operations in the process so far
    log,                \* teardown's calls to its collaborators, in order
    last,               \* the latest of them, with its outcome
    result,             \* what the latest call of the test body returned
    returned,           \* names returned by register / register_netns before it
    seen,               \* addresses returned by the accessors before it
    netcalls,           \* register_network calls: <<family, block, allocated>>
    freed,              \* blocks of register_network freed by earlier contexts
    wrapped             \* the latest call of a guarded test function

vars == <<pc, interfaces, namespaces, rules, netns, request_target,
          default_interface,
          db_provider, root, ipnets, ipranges, ip6net, ip6counter,
          allocated_networks, network_pool, links, idx, sub, ipr, exc, uid,
          ctx, ops, log, last, result, returned, seen, netcalls, freed,
          wrapped>>

registries == <<interfaces, namespaces, rules>>
ipam == <<ipnets, ipranges, ip6net, ip6counter, allocated_networks,
          network_pool>>
context == <<netns, request_target, default_interface, db_provider, root,
             ctx, wrapped>>
loop == <<idx, sub, ipr>>
history == <<ops, result, returned, seen, netcalls, freed>>

NoHandle == -1
NoExc == [kind |-> "none", code |-> 0]
NetlinkError(code) == [kind |-> "NetlinkError", code |-> code]
OtherError(kind) == [kind |-> kind, code |-> 0]

\* a call of teardown to a collaborator, and the same with its outcome
\* (step: the statement of teardown that makes the call; code: the errno of
\* the NetlinkError it raised, if any)
Event(step, op, a, b) == [step |-> step, op |-> op, a |-> a, b |-> b]
Outcome(op, a, b, res, code) ==
    [op |-> op, a |-> a, b |-> b, res |-> res, code |-> code]
NoOutcome == Outcome("none", 0, 0, "none", 0)

\* what a call of the test body returned (ok) or that it raised (~ok)
NoAddr == <<0, 0>>
Result(op, arg, name, addr, ok) ==
    [op |-> op, arg |-> arg, name |-> name, addr |-> addr, ok |-> ok]
NoResult == Result("none", 0, 0, NoAddr, TRUE)

\* how a call of a test function ends: it returns a value, or it raises an
\* exception of a class (kind) with its errno (code) and its args
Return(value) == [kind |-> "return", code |-> 0, args |-> <<value>>]
Raises(kind, code, args) == [kind |-> kind, code |-> code, args |-> args]
\* a call of a guarded test function: the guard, how the wrapped function
\* ended, how test_wrapper ended, the number of guards around the function
Wrapped(guard, func, test_wrapper, depth) ==
    [guard |-> guard, func |-> func, test_wrapper |-> test_wrapper,
     depth |-> depth]
NoCall == Wrapped("none", Return(0), Return(0), 0)

\* ---------------------------------------------------------------- helpers
Last(s) == s[Len(s)]
Front(s) == SubSeq(s, 1, Len(s) - 1)
Range(s) == {s[i] : i \in 1..Len(s)}
Count(s, x) == Cardinality({i \in 1..Len(s) : s[i] = x})
SelectOp(s, which) == SelectSeq(s, LAMBDA e : e.op \in which)

\* (mutation: a list of pairs instead of a dict)
DictSet_append(d, key, value) == Append(d, [key |-> key, value |-> value])

\* dict[key] = value: a present key keeps its position, a new key goes last
DictSet(d, key, value) ==
    IF \E i \in 1..Len(d) : d[i].key = key
    THEN [i \in 1..Len(d) |->
            IF d[i].key = key THEN [key |-> key, value |-> value] ELSE d[i]]
    ELSE Append(d, [key |-> key, value |-> value])

Keys(d) == {d[i].key : i \in 1..Len(d)}

\* ------------------------------------------------- the network allocator
\* utils.allocate_network / utils.free_network: a process-wide pool of free
\* blocks per family.  IPv4 blocks are 1..Pool4Size, IPv6 blocks follow.
Pool4Size == NumIpnets + MaxRegisterNetwork
Pool6Size == MaxContexts + MaxRegisterNetwork
Blocks4 == 1..Pool4Size
Blocks6 == (Pool4Size + 1)..(Pool4Size + Pool6Size)
\* a block the test body made itself and hands to register_network
OwnBlock == Pool4Size + Pool6Size + 1

InitialPool ==
    [f \in Families |->
        IF f = AF_INET THEN [i \in 1..Pool4Size |-> i]
        ELSE [i \in 1..Pool6Size |-> Pool4Size + i]]

\* allocate_network(family): the block handed out, and the pool afterwards
allocate_network(pool, family) == Last(pool[family])
pool_after_allocate(pool, family) == [pool EXCEPT ![family] = Front(@)]
\* free_network(network, family)
free_network(pool, network, family) ==
    [pool EXCEPT ![family] = Append(@, network)]

RECURSIVE free_all(_, _, _)
free_all(pool, nets, family) ==
    IF nets = <<>> THEN pool
    ELSE free_all(free_network(pool, Head(nets), family), Tail(nets), family)

\* ------------------------------------------------------ name generation
\* uifname() and str(uuid.uuid4()): the u-th name generated in the process,
\* distinct from every supplied name and from every other generated name
uifname(u) == OtherName + u
uuid4(u) == OtherName + u

\* [str(x) for x in net]: the addresses of a block, in order
iprange(net) == [k \in 1..BlockSize |-> <<net, k - 1>>]

NameOps == {"register", "register_netns"}
AddrOps == {"get_ipaddr", "get_ip6addr"}

\* the names and addresses returned so far, the latest result included
ReturnedNow ==
    returned \cup (IF result.op \in NameOps /\ result.ok
                   THEN {result.name} ELSE {})
SeenNow ==
    seen \cup (IF result.op \in AddrOps /\ result.ok
               THEN {result.addr} ELSE {})

\* a call of the test body that returns res
Returns(res) ==
    /\ result' = res
    /\ returned' = ReturnedNow
    /\ seen' = SeenNow

\* ---------------------------------------------------------- construction
\* NDBContextManager.__init__ as a function of the process state it finds:
\* the values of the fields after construction
init_context(pool, u, klinks, target, isroot, provider) ==
    LET nsname == uuid4(u + 1)
        u1 == IF target = "netns" THEN u + 1 ELSE u
        ns == IF target = "netns" THEN nsname ELSE None
        net1 == allocate_network(pool, AF_INET)
        pool1 == pool_after_allocate(pool, AF_INET)
        net2 == allocate_network(pool1, AF_INET)
        pool2 == pool_after_allocate(pool1, AF_INET)
        net3 == allocate_network(pool2, AF_INET)
        pool3 == pool_after_allocate(pool2, AF_INET)
        net6 == allocate_network(pool3, AF_INET6)
        pool4 == pool_after_allocate(pool3, AF_INET6)
        ifname == uifname(u1 + 1)
        nets == <<net1, net2, net3>>
    IN  [interfaces |-> IF isroot THEN <<[key |-> ifname, value |-> None]>>
                        ELSE <<>>,
         namespaces |-> IF target = "netns"
                        THEN <<[key |-> nsname, value |-> None]>> ELSE <<>>,
         netns |-> ns,
         target |-> target,
         db_provider |-> provider,
         root |-> isroot,
         ipnets |-> nets,
         ipranges |-> [i \in 1..NumIpnets |-> iprange(nets[i])],
         ip6net |-> net6,
         pool |-> pool4,
         default_interface |->
            IF isroot THEN [index |-> LoIndex + ifname, ifname |-> ifname]
            ELSE [index |-> LoIndex, ifname |-> LoName],
         \* ndb.interfaces.create(...).commit() in the source 'localhost'
         links |-> IF isroot THEN klinks \cup {<<ns, ifname>>} ELSE klinks,
         uid |-> IF isroot THEN u1 + 1 ELSE u1,
         returned |-> IF target = "netns" /\ isroot THEN {nsname} ELSE {},
         result |->
            IF isroot THEN Result("register", None, ifname, NoAddr, TRUE)
            ELSE IF target = "netns"
            THEN Result("register_netns", None, nsname, NoAddr, TRUE)
            ELSE NoResult]

Targets == {"local", "netns"}
Providers == {"sqlite3", "psycopg2"}

Constructed(c) ==
    /\ pc = "test"
    /\ interfaces = c.interfaces
    /\ namespaces = c.namespaces
    /\ rules = <<>>
    /\ netns = c.netns
    /\ request_target = c.target
    /\ default_interface = c.default_interface
    /\ db_provider = c.db_provider
    /\ root = c.root
    /\ ipnets = c.ipnets
    /\ ipranges = c.ipranges
    /\ ip6net = c.ip6net
    /\ ip6counter = Ip6CounterStart
    /\ allocated_networks = [f \in Families |-> <<>>]
    /\ network_pool = c.pool
    /\ links = c.links
    /\ idx = 1
    /\ sub = "open"
    /\ ipr = NoHandle
    /\ exc = NoExc
    /\ uid = c.uid
    /\ log = <<>>
    /\ last = NoOutcome
    /\ result = c.result
    /\ returned = c.returned
    /\ seen = {}
    /\ wrapped = NoCall

Init ==
    \E target \in Targets, isroot \in BOOLEAN, provider \in Providers :
        /\ Constructed(init_context(InitialPool, 0, {}, target, isroot,
                                    provider))
        /\ ctx = 1
        /\ ops = 0
        /\ netcalls = <<>>
        /\ freed = {}

\* ----------------------------------------------------------- registration
\* (mutation: the name generated once and reused by every call)
register_stale_name(ifname, nsname) ==
    LET name == IF ifname = None THEN uifname(1) ELSE ifname
    IN  /\ pc = "test"
        /\ ops < MaxOps
        /\ ops' = ops + 1
        /\ interfaces' = DictSet(interfaces, name, nsname)
        /\ uid' = uid
        /\ Returns(Result("register", ifname, name, NoAddr, TRUE))
        /\ UNCHANGED <<pc, namespaces, rules, ipam, context, links, loop,
                       exc, log, last, netcalls, freed>>

\* (mutation: a registration that creates the interface as well)
register_creates_link(ifname, nsname) ==
    LET name == IF ifname = None THEN uifname(uid + 1) ELSE ifname
    IN  /\ pc = "test"
        /\ ops < MaxOps
        /\ ops' = ops + 1
        /\ interfaces' = DictSet(interfaces, name, nsname)
        /\ links' = links \cup {<<nsname, name>>}
        /\ uid' = IF ifname = None THEN uid + 1 ELSE uid
        /\ Returns(Result("register", ifname, name, NoAddr, TRUE))
        /\ UNCHANGED <<pc, namespaces, rules, ipam, context, loop,
                       exc, log, last, netcalls, freed>>

\* register(ifname=None, netns=None)
register(ifname, nsname) ==
    LET name == IF ifname = None THEN uifname(uid + 1) ELSE ifname
    IN  /\ pc = "test"
        /\ ops < MaxOps
        /\ ops' = ops + 1
        /\ interfaces' = DictSet(interfaces, name, nsname)
        /\ uid' = IF ifname = None THEN uid + 1 ELSE uid
        /\ Returns(Result("register", ifname, name, NoAddr, TRUE))
        /\ UNCHANGED <<pc, namespaces, rules, ipam, context, links, loop,
                       exc, log, last, netcalls, freed>>

\* register_netns(netns=None)
register_netns(nsname) ==
    LET name == IF nsname = None THEN uuid4(uid + 1) ELSE nsname
    IN  /\ pc = "test"
        /\ ops < MaxOps
        /\ ops' = ops + 1
        /\ namespaces' = DictSet(namespaces, name, None)
        /\ uid' = IF nsname = None THEN uid + 1 ELSE uid
        /\ Returns(Result("register_netns", nsname, name, NoAddr, TRUE))
        /\ UNCHANGED <<pc, interfaces, rules, ipam, context, links, loop,
                       exc, log, last, netcalls, freed>>

\* (mutation: the rule list holds the latest rule only)
register_rule_replace(spec, nsname) ==
    /\ pc = "test"
    /\ ops < MaxOps
    /\ ops' = ops + 1
    /\ rules' = <<(<<nsname, spec>>)>>
    /\ Returns(Result("register_rule", nsname, spec, NoAddr, TRUE))
    /\ UNCHANGED <<pc, interfaces, namespaces, ipam, context, links, loop,
                   exc, uid, log, last, netcalls, freed>>

\* register_rule(spec, netns=None)
register_rule(spec, nsname) ==
    /\ pc = "test"
    /\ ops < MaxOps
    /\ ops' = ops + 1
    /\ rules' = Append(rules, <<nsname, spec>>)
    /\ Returns(Result("register_rule", nsname, spec, NoAddr, TRUE))
    /\ UNCHANGED <<pc, interfaces, namespaces, ipam, context, links, loop,
                   exc, uid, log, last, netcalls, freed>>

\* the properties new_ifname and new_nsname
new_ifname == register(None, None)
new_nsname == register_netns(None)

\* the test body creates an interface it has registered: one more of its
\* operations
link_add ==
    /\ pc = "test"
    /\ ops < MaxOps
    /\ ops' = ops + 1
    /\ \E i \in 1..Len(interfaces) :
        /\ <<interfaces[i].value, interfaces[i].key>> \notin links
        /\ links' = links \cup {<<interfaces[i].value, interfaces[i].key>>}
    /\ UNCHANGED <<pc, registries, ipam, context, loop, exc, uid, log, last,
                   result, returned, seen, netcalls, freed>>

\* ------------------------------------------------------------------ IPAM
\* (mutation: the block recorded under AF_INET whatever the family)
register_network_default_family(family, network) ==
    LET net == IF network = None
               THEN allocate_network(network_pool, family) ELSE network
    IN  /\ pc = "test"
        /\ ops < MaxRegisterNetwork
        /\ ops' = ops + 1
        /\ network = None => network_pool[family] # <<>>
        /\ network_pool' = IF network = None
                           THEN pool_after_allocate(network_pool, family)
                           ELSE network_pool
        /\ allocated_networks' =
              [allocated_networks EXCEPT ![AF_INET] = Append(@, net)]
        /\ netcalls' = Append(netcalls, <<family, net, network = None>>)
        /\ Returns(Result("register_network", family, net, NoAddr, TRUE))
        /\ UNCHANGED <<pc, registries, ipnets, ipranges, ip6net, ip6counter,
                       context, links, loop, exc, uid, log, last, freed>>

\* register_network(family=AF_INET, network=None)
register_network(family, network) ==
    LET net == IF network = None
               THEN allocate_network(network_pool, family) ELSE network
    IN  /\ pc = "test"
        /\ ops < MaxRegisterNetwork
        /\ ops' = ops + 1
        /\ network = None => network_pool[family] # <<>>
        /\ network_pool' = IF network = None
                           THEN pool_after_allocate(network_pool, family)
                           ELSE network_pool
        /\ allocated_networks' =
              [allocated_networks EXCEPT ![family] = Append(@, net)]
        /\ netcalls' = Append(netcalls, <<family, net, network = None>>)
        /\ Returns(Result("register_network", family, net, NoAddr, TRUE))
        /\ UNCHANGED <<pc, registries, ipnets, ipranges, ip6net, ip6counter,
                       context, links, loop, exc, uid, log, last, freed>>

\* (mutation: the last address read but left in the list)
get_ipaddr_peek(r) ==
    /\ pc = "test"
    /\ IF ipranges[r + 1] = <<>>
       THEN Returns(Result("get_ipaddr", r, None, NoAddr, FALSE))
       ELSE Returns(Result("get_ipaddr", r, None, Last(ipranges[r + 1]), TRUE))
    /\ ipranges' = ipranges
    /\ UNCHANGED <<pc, registries, ipnets, ip6net, ip6counter,
                   allocated_networks, network_pool, context, links, loop,
                   exc, uid, ops, log, last, netcalls, freed>>

\* get_ipaddr(r=0): self.ipranges[r].pop() raises IndexError on an empty list
get_ipaddr(r) ==
    /\ pc = "test"
    /\ IF ipranges[r + 1] = <<>>
       THEN /\ Returns(Result("get_ipaddr", r, None, NoAddr, FALSE))
            /\ ipranges' = ipranges
       ELSE /\ Returns(Result("get_ipaddr", r, None, Last(ipranges[r + 1]),
                              TRUE))
            /\ ipranges' = [ipranges EXCEPT ![r + 1] = Front(@)]
    /\ UNCHANGED <<pc, registries, ipnets, ip6net, ip6counter,
                   allocated_networks, network_pool, context, links, loop,
                   exc, uid, ops, log, last, netcalls, freed>>

\* (mutation: the block indexed by the range argument)
get_ip6addr_by_range(r) ==
    /\ pc = "test"
    /\ ip6counter - Ip6CounterStart < MaxIp6Calls
    /\ Returns(Result("get_ip6addr", r, None,
                      <<ip6net, Ip6CounterStart + r>>, TRUE))
    /\ ip6counter' = ip6counter + 1
    /\ UNCHANGED <<pc, registries, ipnets, ipranges, ip6net,
                   allocated_networks, network_pool, context, links, loop,
                   exc, uid, ops, log, last, netcalls, freed>>

\* get_ip6addr(r=0): self.ip6net[next(self.ip6counter)]
get_ip6addr(r) ==
    /\ pc = "test"
    /\ ip6counter - Ip6CounterStart < MaxIp6Calls
    /\ Returns(Result("get_ip6addr", r, None, <<ip6net, ip6counter>>, TRUE))
    /\ ip6counter' = ip6counter + 1
    /\ UNCHANGED <<pc, registries, ipnets, ipranges, ip6net,
                   allocated_networks, network_pool, context, links, loop,
                   exc, uid, ops, log, last, netcalls, freed>>

\* the properties new_ipaddr, new_ip6addr, new_ip4net and new_ip6net
new_ipaddr == get_ipaddr(0)
new_ip6addr == get_ip6addr(0)
new_ip4net == register_network(AF_INET, None)
new_ip6net == register_network(AF_INET6, None)

RangeArgs == 0..(NumIpnets - 1)
NetworkArgs == {None, OwnBlock}

\* the arguments a test body passes: no name, a name of its own, or a name
\* a registration has returned to it
IfnameArgs == {None, LoName} \cup Keys(interfaces)
NetnsArgs == {None, OtherName} \cup Keys(namespaces)

\* ------------------------------------------------------------ the guards
\* the classes an `except RuntimeError` clause catches: NotImplementedError
\* is a subclass of RuntimeError
RuntimeErrors == {"RuntimeError", "NotImplementedError"}

\* pytest.skip(*args): raises the skip outcome with the reason args[0], or
\* with the empty reason when there is no argument
pytest_skip(args) ==
    Raises("Skipped", 0, IF args = <<>> THEN <<"">> ELSE <<args[1]>>)

\* (mutation: the guard catches AttributeError only)
skip_if_not_implemented_attribute_only(o) ==
    IF o.kind = "AttributeError"
    THEN pytest_skip(<<"feature not implemented">>)
    ELSE o

\* skip_if_not_implemented(func): how test_wrapper ends when func ends as o
skip_if_not_implemented(o) ==
    IF o.kind \in {"AttributeError", "NotImplementedError"}
    THEN pytest_skip(<<"feature not implemented">>)
    ELSE o

\* (mutation: every NetlinkError becomes a skip)
skip_if_not_supported_any_code(o) ==
    IF o.kind = "NetlinkError"
    THEN pytest_skip(<<"feature not supported by platform">>)
    ELSE IF o.kind \in RuntimeErrors
    THEN pytest_skip(o.args)
    ELSE o

\* skip_if_not_supported(func): how test_wrapper ends when func ends as o
skip_if_not_supported(o) ==
    IF o.kind = "NetlinkError"
    THEN IF o.code \in {EOPNOTSUPP, ENOENT}
         THEN pytest_skip(<<"feature not supported by platform">>)
         ELSE o
    ELSE IF o.kind \in RuntimeErrors
    THEN pytest_skip(o.args)
    ELSE o

Guards == {"skip_if_not_implemented", "skip_if_not_supported"}

test_wrapper(guard, o) ==
    IF guard = "skip_if_not_implemented" THEN skip_if_not_implemented(o)
    ELSE skip_if_not_supported(o)

\* the ways a test function ends
Values == {None, 1}
GuardCodes == {EOPNOTSUPP, ENOENT, EPERM}
ArgTuples == {<<>>, <<"message">>}
FuncOutcomes ==
    {Return(v) : v \in Values}
    \cup {Raises("NetlinkError", code, <<>>) : code \in GuardCodes}
    \cup {Raises(kind, 0, args) :
            kind \in {"RuntimeError", "NotImplementedError",
                      "AttributeError", "OSError"},
            args \in ArgTuples}

\* a test function under one guard is called and ends as o
call_guarded(guard, o) ==
    /\ pc = "test"
    /\ wrapped' = Wrapped(guard, o, test_wrapper(guard, o), 1)
    /\ UNCHANGED <<pc, registries, ipam, netns, request_target,
                   default_interface, db_provider, root, ctx, links, loop,
                   exc, uid, log, last, history>>

\* one more guard around a guarded test function: its func is the
\* test_wrapper of the guard inside
call_stacked(guard) ==
    /\ pc = "test"
    /\ wrapped.depth >= 1
    /\ wrapped.depth < MaxGuards
    /\ wrapped' = Wrapped(guard, wrapped.test_wrapper,
                          test_wrapper(guard, wrapped.test_wrapper),
                          wrapped.depth + 1)
    /\ UNCHANGED <<pc, registries, ipam, netns, request_target,
                   default_interface, db_provider, root, ctx, links, loop,
                   exc, uid, log, last, history>>

\* --------------------------------------------------------------- teardown
\* (mutation: the rule loop placed before the namespace loop)
StepOrder_rules_first ==
    <<"close_ndb", "close_ipr", "close_wg", "interfaces", "rules",
      "namespaces", "ipnets", "allocated", "done">>

\* The statements of teardown() in program order.  A for loop over an empty
\* registry executes nothing.
StepOrder ==
    <<"close_ndb", "close_ipr", "close_wg", "interfaces", "namespaces",
      "rules", "ipnets", "allocated", "done">>

StepIndex(step) == CHOOSE k \in 1..Len(StepOrder) : StepOrder[k] = step

\* (mutation: a teardown without the interface loop)
LoopLen_no_interfaces(step) ==
    IF step = "interfaces" THEN 0
    ELSE IF step = "namespaces" THEN Len(namespaces)
    ELSE IF step = "rules" THEN Len(rules)
    ELSE 1

\* (mutation: a teardown without the namespace loop)
LoopLen_no_namespaces(step) ==
    IF step = "interfaces" THEN Len(interfaces)
    ELSE IF step = "namespaces" THEN 0
    ELSE IF step = "rules" THEN Len(rules)
    ELSE 1

LoopLen(step) ==
    IF step = "interfaces" THEN Len(interfaces)
    ELSE IF step = "namespaces" THEN Len(namespaces)
    ELSE IF step = "rules" THEN Len(rules)
    ELSE 1

RECURSIVE FirstFrom(_)
FirstFrom(k) ==
    IF LoopLen(StepOrder[k]) > 0 THEN StepOrder[k] ELSE FirstFrom(k + 1)

\* the statement control reaches when the statement `step` has finished
After(step) == FirstFrom(StepIndex(step) + 1)

Goto(step) ==
    /\ pc' = step
    /\ idx' = 1
    /\ sub' = "open"
    /\ ipr' = NoHandle
    /\ exc' = exc

\* (mutation: a loop that steps over every second entry)
NextIteration_skip ==
    IF idx + 1 < LoopLen(pc)
    THEN /\ idx' = idx + 2
         /\ sub' = "open"
         /\ ipr' = NoHandle
         /\ UNCHANGED <<pc, exc>>
    ELSE Goto(After(pc))

\* the end of one iteration of the loop at pc
NextIteration ==
    IF idx < LoopLen(pc)
    THEN /\ idx' = idx + 1
         /\ sub' = "open"
         /\ ipr' = NoHandle
         /\ UNCHANGED <<pc, exc>>
    ELSE Goto(After(pc))

\* an exception leaves teardown()
Raise(e) ==
    /\ pc' = "raised"
    /\ exc' = e
    /\ ipr' = NoHandle
    /\ UNCHANGED <<idx, sub>>

\* a call to a collaborator and its outcome
CallCode(op, a, b, res, code) ==
    /\ log' = Append(log, Event(pc, op, a, b))
    /\ last' = Outcome(op, a, b, res, code)

Call(op, a, b, res) == CallCode(op, a, b, res, 0)

\* (mutation: an iteration that ends without its finally clause)
CallFinallyCode_no_close(op, a, b, res, code) ==
    /\ log' = Append(log, Event(pc, op, a, b))
    /\ last' = Outcome(op, a, b, res, code)

\* the same as the last call of an iteration: the `finally` clause
\* `if ipr is not None: ipr.close()` runs before the iteration ends
CallFinallyCode(op, a, b, res, code) ==
    /\ log' = IF ipr # NoHandle
              THEN log \o <<Event(pc, op, a, b), Event(pc, "close", ipr, 0)>>
              ELSE Append(log, Event(pc, op, a, b))
    /\ last' = Outcome(op, a, b, res, code)

CallFinally(op, a, b, res) == CallFinallyCode(op, a, b, res, 0)

\* (mutation: an except clause that swallows whatever the code)
Except_never_raises(code, ignored) == NextIteration

\* (mutation: an except clause that re-raises whatever the code)
Except_always_raises(code, ignored) == Raise(NetlinkError(code))

\* `except NetlinkError as e: if e.code != <ignored>: raise`
Except(code, ignored) ==
    IF code = ignored THEN NextIteration ELSE Raise(NetlinkError(code))

\* lines 316-318: the post-mortem backup (python >= 3.7)
teardown ==
    /\ pc = "test"
    /\ IF db_provider = "sqlite3"
       THEN \E ok \in BOOLEAN :
              /\ Call("backup", 0, 0, IF ok THEN "ok" ELSE "raise")
              /\ IF ok THEN Goto("close_ndb")
                 ELSE Raise(OtherError("Exception"))
       ELSE /\ UNCHANGED <<log, last>>
            /\ Goto("close_ndb")
    /\ UNCHANGED <<registries, ipam, context, links, uid, history>>

\* lines 319-321: self.ndb.close(); self.ipr.close(); self.wg.close()
close_owned(step) ==
    /\ pc = step
    /\ \E ok \in BOOLEAN :
         /\ Call(step, 0, 0, IF ok THEN "ok" ELSE "raise")
         /\ IF ok THEN Goto(After(step)) ELSE Raise(OtherError("Exception"))
    /\ UNCHANGED <<registries, ipam, context, links, uid, history>>

close_ndb == close_owned("close_ndb")
close_ipr == close_owned("close_ipr")
close_wg == close_owned("close_wg")

\* (mutation: the default handle whatever the recorded namespace)
open_handle_default(nsname) ==
    \E ok \in BOOLEAN :
      IF ok
      THEN /\ Call("open", nsname, 0, "ok")
           /\ ipr' = None
           /\ sub' = IF pc = "interfaces" THEN "lookup" ELSE "del"
           /\ UNCHANGED <<pc, idx, exc>>
      ELSE /\ CallFinally("open_failed", nsname, 0, "raise")
           /\ Raise(OtherError("OSError"))

\* lines 324-330 and 358-362: ipr = NetNS(nsname) or IPRoute()
open_handle(nsname) ==
    \E ok \in BOOLEAN :
      IF ok
      THEN /\ Call("open", nsname, 0, "ok")
           /\ ipr' = nsname
           /\ sub' = IF pc = "interfaces" THEN "lookup" ELSE "del"
           /\ UNCHANGED <<pc, idx, exc>>
      ELSE /\ CallFinally("open_failed", nsname, 0, "raise")
           /\ Raise(OtherError("OSError"))

interface_open ==
    /\ pc = "interfaces" /\ sub = "open"
    /\ open_handle(interfaces[idx].value)
    /\ UNCHANGED <<registries, ipam, context, links, uid, history>>

\* lines 333-339: index = list(ipr.link_lookup(ifname=ifname))
interface_lookup ==
    LET ifname == interfaces[idx].key
        present == <<ipr, ifname>> \in links
    IN  /\ pc = "interfaces" /\ sub = "lookup"
        /\ \/ /\ present
              /\ Call("lookup", ifname, ipr, "found")
              /\ sub' = "del"
              /\ UNCHANGED <<pc, idx, ipr, exc>>
           \/ /\ ~present
              /\ CallFinally("lookup", ifname, ipr, "absent")
              /\ NextIteration
           \/ \E code \in NetlinkCodes :
                /\ code = ENODEV => ~present
                /\ CallFinallyCode("lookup", ifname, ipr, "raise", code)
                /\ Except(code, ENODEV)
        /\ UNCHANGED <<registries, ipam, context, links, uid, history>>

\* lines 342-347: ipr.link('del', index=index)
interface_del ==
    LET ifname == interfaces[idx].key
    IN  /\ pc = "interfaces" /\ sub = "del"
        /\ \/ /\ CallFinally("del", ifname, ipr, "ok")
              /\ links' = links \ {<<ipr, ifname>>}
              /\ NextIteration
           \/ \E code \in NetlinkCodes :
                /\ CallFinallyCode("del", ifname, ipr, "raise", code)
                /\ Except(code, ENODEV)
                \* ENODEV: somebody else has removed it in between
                /\ links' = IF code = ENODEV THEN links \ {<<ipr, ifname>>}
                            ELSE links
        /\ UNCHANGED <<registries, ipam, context, uid, history>>

\* lines 351-355: netns.remove(nsname)
namespace_remove ==
    LET nsname == namespaces[idx].key
        inside == {l \in links : l[1] = nsname}
    IN  /\ pc = "namespaces"
        /\ \/ /\ Call("netns.remove", nsname, 0, "ok")
              /\ links' = links \ inside
              /\ NextIteration
           \/ /\ inside = {}
              /\ Call("netns.remove", nsname, 0, "FileNotFoundError")
              /\ links' = links
              /\ NextIteration
           \/ /\ Call("netns.remove", nsname, 0, "raise")
              /\ links' = links
              /\ Raise(OtherError("OSError"))
        /\ UNCHANGED <<registries, ipam, context, uid, history>>

rule_open ==
    /\ pc = "rules" /\ sub = "open"
    /\ open_handle(rules[idx][1])
    /\ UNCHANGED <<registries, ipam, context, links, uid, history>>

\* lines 363-366: ipr.rule('del', **rule)
rule_del ==
    LET rule == rules[idx][2]
    IN  /\ pc = "rules" /\ sub = "del"
        /\ \/ /\ CallFinally("rule", rule, ipr, "ok")
              /\ NextIteration
           \/ \E code \in NetlinkCodes :
                /\ CallFinallyCode("rule", rule, ipr, "raise", code)
                /\ Except(code, ENOENT)
        /\ UNCHANGED <<registries, ipam, context, links, uid, history>>

RECURSIVE FreeEvents(_, _, _)
FreeEvents(step, nets, family) ==
    IF nets = <<>> THEN <<>>
    ELSE <<Event(step, "free", Head(nets), family)>>
         \o FreeEvents(step, Tail(nets), family)

\* lines 370-371: for net in self.ipnets: free_network(net)
free_ipnets ==
    /\ pc = "ipnets"
    /\ network_pool' = free_all(network_pool, ipnets, AF_INET)
    /\ log' = log \o FreeEvents(pc, ipnets, AF_INET)
    /\ last' = Outcome("free", Last(ipnets), AF_INET, "ok", 0)
    /\ Goto(After("ipnets"))
    /\ UNCHANGED <<registries, ipnets, ipranges, ip6net, ip6counter,
                   allocated_networks, context, links, uid, history>>

\* lines 372-374: for family, networks in self.allocated_networks.items()
free_allocated ==
    LET events == FreeEvents(pc, allocated_networks[AF_INET], AF_INET)
                  \o FreeEvents(pc, allocated_networks[AF_INET6], AF_INET6)
    IN  /\ pc = "allocated"
        /\ network_pool' =
              free_all(free_all(network_pool, allocated_networks[AF_INET],
                                AF_INET),
                       allocated_networks[AF_INET6], AF_INET6)
        /\ log' = log \o events
        /\ last' = IF events = <<>> THEN last
                   ELSE Outcome("free", Last(events).a, Last(events).b, "ok", 0)
        /\ Goto(After("allocated"))
        /\ UNCHANGED <<registries, ipnets, ipranges, ip6net, ip6counter,
                       allocated_networks, context, links, uid, history>>

\* the blocks of register_network this teardown has passed to free_network
FreedRegistered ==
    {<<log[i].b, log[i].a>> :
        i \in {j \in 1..Len(log) : log[j].step = "allocated"}}

\* the next test of the session: a new context with the same parameters,
\* built in the process state the finished one has left
construct ==
    LET c == init_context(network_pool, uid, links, request_target, root,
                          db_provider)
    IN  /\ pc = "done"
        /\ ctx < MaxContexts
        /\ ctx' = ctx + 1
        /\ pc' = "test"
        /\ interfaces' = c.interfaces
        /\ namespaces' = c.namespaces
        /\ rules' = <<>>
        /\ netns' = c.netns
        /\ request_target' = c.target
        /\ default_interface' = c.default_interface
        /\ db_provider' = c.db_provider
        /\ root' = c.root
        /\ ipnets' = c.ipnets
        /\ ipranges' = c.ipranges
        /\ ip6net' = c.ip6net
        /\ ip6counter' = Ip6CounterStart
        /\ allocated_networks' = [f \in Families |-> <<>>]
        /\ network_pool' = c.pool
        /\ links' = c.links
        /\ idx' = 1
        /\ sub' = "open"
        /\ ipr' = NoHandle
        /\ exc' = NoExc
        /\ uid' = c.uid
        /\ ops' = ops
        /\ log' = <<>>
        /\ last' = NoOutcome
        /\ result' = c.result
        /\ returned' = c.returned
        /\ seen' = {}
        /\ netcalls' = <<>>
        /\ freed' = freed \cup FreedRegistered
        /\ wrapped' = wrapped

TeardownSteps ==
    \/ teardown
    \/ close_ndb
    \/ close_ipr
    \/ close_wg
    \/ interface_open
    \/ interface_lookup
    \/ interface_del
    \/ namespace_remove
    \/ free_ipnets
    \/ free_allocated

\* a test body that registers interfaces, namespaces and rules
Next ==
    \/ \E ifname \in IfnameArgs, nsname \in NetnsArgs : register(ifname, nsname)
    \/ \E nsname \in NetnsArgs : register_netns(nsname)
    \/ \E spec \in RuleSpecs, nsname \in NetnsArgs : register_rule(spec, nsname)
    \/ new_ifname
    \/ new_nsname
    \/ link_add
    \/ TeardownSteps
    \/ rule_open
    \/ rule_del

Spec == Init /\ [][Next]_vars

\* test bodies that register networks, one context after the other
NextNet ==
    \/ \E family \in Families, network \in NetworkArgs :
            register_network(family, network)
    \/ new_ip4net
    \/ new_ip6net
    \/ TeardownSteps
    \/ construct

SpecNet == Init /\ [][NextNet]_vars

\* a test body that registers resources of every kind, and the teardown
NextLife ==
    \/ \E ifname \in IfnameArgs, nsname \in NetnsArgs : register(ifname, nsname)
    \/ \E nsname \in NetnsArgs : register_netns(nsname)
    \/ \E spec \in RuleSpecs, nsname \in NetnsArgs : register_rule(spec, nsname)
    \/ \E family \in Families, network \in NetworkArgs :
            register_network(family, network)
    \/ TeardownSteps
    \/ rule_open
    \/ rule_del

SpecLife == Init /\ [][NextLife]_vars

\* guarded test functions
NextGuard ==
    \/ \E guard \in Guards, o \in FuncOutcomes : call_guarded(guard, o)
    \/ \E guard \in Guards : call_stacked(guard)

SpecGuard == Init /\ [][NextGuard]_vars

\* a test body that takes addresses
NextAddr ==
    \/ \E r \in RangeArgs : get_ipaddr(r)
    \/ \E r \in RangeArgs : get_ip6addr(r)
    \/ new_ipaddr
    \/ new_ip6addr

SpecAddr == Init /\ [][NextAddr]_vars

\* ================================================================ claims
\* the calls of teardown that attempt the removal of an entry, per loop
AttemptOp(step) ==
    IF step = "interfaces" THEN "lookup"
    ELSE IF step = "namespaces" THEN "netns.remove"
    ELSE "rule"

Attempts(step) ==
    SelectSeq(log, LAMBDA e : e.step = step /\ e.op = AttemptOp(step))

CountOp(op) == Cardinality({i \in 1..Len(log) : log[i].op = op})

\* the attempts so far are, in order, the first entries of the registries
AttemptsArePrefix ==
    LET ifs == Attempts("interfaces")
        nss == Attempts("namespaces")
        rls == Attempts("rules")
    IN  /\ Len(ifs) <= Len(interfaces)
        /\ \A i \in 1..Len(ifs) :
              /\ ifs[i].a = interfaces[i].key
              /\ ifs[i].b = interfaces[i].value
        /\ Len(nss) <= Len(namespaces)
        /\ \A i \in 1..Len(nss) : nss[i].a = namespaces[i].key
        /\ Len(rls) <= Len(rules)
        /\ \A i \in 1..Len(rls) :
              /\ rls[i].a = rules[i][2]
              /\ rls[i].b = rules[i][1]

\* C1: a teardown that no collaborator fails fatally (it reaches its end)
\* has attempted the removal of every entry of the interface, namespace and
\* rule registries exactly once, in registry order; and at no moment has an
\* entry been attempted twice.
C1_EveryEntryAttemptedOnce ==
    /\ AttemptsArePrefix
    /\ pc = "done" =>
          /\ Len(Attempts("interfaces")) = Len(interfaces)
          /\ Len(Attempts("namespaces")) = Len(namespaces)
          /\ Len(Attempts("rules")) = Len(rules)

C1_Witness ==
    /\ pc = "done"
    /\ Len(interfaces) >= 2
    /\ Len(namespaces) >= 1
    /\ Len(rules) >= 1

OwnedHandles == {"close_ndb", "close_ipr", "close_wg"}

\* C2 (as claimed): whenever teardown has ended, by returning or by raising,
\* each of the owned handles ndb, ipr and wg has been closed exactly once.
C2_HandlesClosedOnEveryExit ==
    pc \in {"done", "raised"} => \A h \in OwnedHandles : CountOp(h) = 1

\* C3 (as claimed): when an interface deletion has failed fatally, the later
\* steps have still been executed: the registered namespaces have been
\* removed, the registered rules deleted and the pre-allocated blocks freed.
C3_LaterStepsRunAfterFatal ==
    (pc = "raised" /\ last.op \in {"lookup", "del"}) =>
        /\ Len(Attempts("namespaces")) = Len(namespaces)
        /\ Len(Attempts("rules")) = Len(rules)
        /\ \A i \in 1..NumIpnets :
              \E j \in 1..Len(log) : log[j].op = "free" /\ log[j].a = ipnets[i]

FreeCount(net) ==
    Cardinality({i \in 1..Len(log) : log[i].op = "free" /\ log[i].a = net})

\* the blocks the context has obtained from allocate_network
AllocatedByContext ==
    Range(ipnets) \cup {ip6net}
    \cup {netcalls[i][2] : i \in {j \in 1..Len(netcalls) : netcalls[j][3]}}

\* C4 (as claimed): after a teardown that completes without error, every
\* block the context allocated (the three IPv4 blocks and the IPv6 block of
\* construction, and the blocks register_network allocated) has been passed
\* to free_network exactly once.
C4_EveryAllocationFreedOnce ==
    pc = "done" => \A net \in AllocatedByContext : FreeCount(net) = 1

\* the latest call found its target already absent
AlreadyAbsent ==
    \/ last.op = "lookup" /\ last.res = "absent"
    \/ last.op \in {"lookup", "del"} /\ last.res = "raise" /\ last.code = ENODEV
    \/ last.op = "netns.remove" /\ last.res = "FileNotFoundError"
    \/ last.op = "rule" /\ last.res = "raise" /\ last.code = ENOENT

LoopOf(op) ==
    IF op \in {"lookup", "del"} THEN "interfaces"
    ELSE IF op = "netns.remove" THEN "namespaces"
    ELSE "rules"

ClaimedOrder ==
    <<"test", "close_ndb", "close_ipr", "close_wg", "interfaces",
      "namespaces", "rules", "ipnets", "allocated", "done">>

Rank(step) == CHOOSE k \in 1..Len(ClaimedOrder) : ClaimedOrder[k] = step

\* C5: when teardown finds an entry already absent (the lookup returns no
\* index, the lookup or the delete fails with ENODEV, the namespace does not
\* exist, the rule delete fails with ENOENT), it does not raise, it has
\* attempted that entry once, and control is at the next entry of the
\* registry, or past the loop at a later step when the entry was the last.
C5_AbsentEntryIsSkipped ==
    AlreadyAbsent =>
        LET step == LoopOf(last.op)
            k == Len(Attempts(step))
        IN  /\ pc # "raised"
            /\ exc = NoExc
            /\ k >= 1
            /\ k <= LoopLen(step)
            /\ IF k < LoopLen(step)
               THEN pc = step /\ idx = k + 1 /\ sub = "open"
               ELSE Rank(pc) > Rank(step)

C5_Witness ==
    /\ last.op = "del" /\ last.res = "raise" /\ last.code = ENODEV
    /\ pc = "interfaces"
    /\ idx = 2

\* what a step has to have done when it has finished
Finished(step) ==
    IF step = "test" THEN CountOp("backup") = (IF db_provider = "sqlite3"
                                               THEN 1 ELSE 0)
    ELSE IF step \in OwnedHandles THEN CountOp(step) = 1
    ELSE IF step \in {"interfaces", "rules"}
    THEN /\ Len(Attempts(step)) = LoopLen(step)
         /\ Cardinality({i \in 1..Len(log) :
                log[i].step = step /\ log[i].op = "open"}) = LoopLen(step)
         /\ Cardinality({i \in 1..Len(log) :
                log[i].step = step /\ log[i].op = "close"}) = LoopLen(step)
    ELSE IF step = "namespaces"
    THEN Len(Attempts(step)) = LoopLen(step)
    ELSE IF step = "ipnets"
    THEN Cardinality({i \in 1..Len(log) : log[i].step = step}) = NumIpnets
    ELSE Cardinality({i \in 1..Len(log) : log[i].step = step})
            = Len(allocated_networks[AF_INET])
              + Len(allocated_networks[AF_INET6])

\* C6: the calls of teardown occur in the order backup, close ndb, close
\* ipr, close wg, interfaces, namespaces, rules, network blocks: a call of
\* a step is never followed by a call of an earlier step, and when a call of
\* a step has occurred, every earlier step has finished all its calls.
C6_StepsInFixedOrder ==
    LET ranks == [i \in 1..Len(log) |-> Rank(log[i].step)]
        reached == IF pc # "raised" THEN Rank(pc)
                   ELSE IF log = <<>> THEN 1 ELSE ranks[Len(log)]
    IN  /\ \A i \in 1..(Len(log) - 1) : ranks[i] <= ranks[i + 1]
        /\ log # <<>> => ranks[Len(log)] <= reached
        /\ \A k \in 1..Len(ClaimedOrder) :
              k < reached => Finished(ClaimedOrder[k])

C6_Witness ==
    /\ pc = "done"
    /\ CountOp("netns.remove") >= 1
    /\ CountOp("rule") >= 1
    /\ CountOp("del") >= 1

AllBlocks == 1..OwnBlock

\* C7: after teardown, the calls free_network(block, family) of the release
\* of the registered networks are exactly the register_network calls of the
\* context: as many calls for a block and a family as register_network
\* calls with that block under that family; and every such block is in the
\* allocator's pool of that family, to be allocated by a later context.
C7_RegisteredNetworksReleased ==
    pc = "done" =>
        /\ \A f \in Families, net \in AllBlocks :
              Cardinality({i \in 1..Len(netcalls) :
                  netcalls[i][1] = f /\ netcalls[i][2] = net})
              = Cardinality({i \in 1..Len(log) :
                  /\ log[i].step = "allocated" /\ log[i].op = "free"
                  /\ log[i].a = net /\ log[i].b = f})
        /\ \A i \in 1..Len(netcalls) :
              netcalls[i][2] \in Range(network_pool[netcalls[i][1]])

\* a later context holds a block an earlier one had registered and released
C7_Witness ==
    /\ ctx > 1
    /\ \E x \in freed :
          \/ x[2] \in Range(ipnets)
          \/ x[2] = ip6net
          \/ x[2] \in Range(allocated_networks[x[1]])

\* C8 (as claimed): no registration call returns a name that an earlier
\* registration call of the context has returned.
C8_EveryReturnedNameIsNew ==
    (result.op \in NameOps) => result.name \notin returned

\* C8 (amended): a registration call without a caller-supplied name returns
\* a name that no earlier registration call of the context has returned.
C8_EveryGeneratedNameIsNew ==
    (result.op \in NameOps /\ result.arg = None) => result.name \notin returned

C8_Witness ==
    /\ result.op = "register" /\ result.arg = None
    /\ ops >= 2
    /\ Cardinality(returned) >= 2

\* the addresses of pool r returned so far
Popped(r) == {a \in SeenNow : a[1] = ipnets[r + 1]}

\* C9: a get_ipaddr call on a pre-allocated block returns an address of that
\* block that no earlier call has returned, as long as fewer than BlockSize
\* calls on it have succeeded; a call after that raises, with the pool empty;
\* the addresses handed out and those left in a pool are always the block.
C9_Ipv4PoolNeverReissues ==
    /\ \A r \in RangeArgs :
          /\ Cardinality(Popped(r)) + Len(ipranges[r + 1]) = BlockSize
          /\ Popped(r) \cap Range(ipranges[r + 1]) = {}
    /\ result.op = "get_ipaddr" =>
          IF result.ok
          THEN /\ result.addr \notin seen
               /\ result.addr[1] = ipnets[result.arg + 1]
               /\ result.addr \in Range(iprange(ipnets[result.arg + 1]))
          ELSE /\ ipranges[result.arg + 1] = <<>>
               /\ Cardinality({a \in seen : a[1] = ipnets[result.arg + 1]})
                    = BlockSize

C9_Witness ==
    /\ result.op = "get_ipaddr"
    /\ ~result.ok
    /\ Cardinality(Popped(result.arg)) = BlockSize

\* the get_ip6addr calls so far
Ip6Calls == Cardinality({a \in SeenNow : a[1] = ip6net})

Removals(nsname) ==
    Cardinality({i \in 1..Len(log) :
        log[i].op = "netns.remove" /\ log[i].a = nsname})

\* C11: a context constructed with target mode netns has a generated
\* namespace name as its owning namespace and as the first entry of the
\* namespace registry, and a teardown that returns has removed that
\* namespace, once; a context constructed with target mode local has no
\* owning namespace and an empty namespace registry after construction.
C11_NetnsRecordedAtConstruction ==
    /\ request_target = "netns" =>
          /\ netns # None
          /\ \E u \in 1..uid : netns = uuid4(u)
          /\ Len(namespaces) >= 1
          /\ namespaces[1] = [key |-> netns, value |-> None]
          /\ pc = "done" => Removals(netns) = 1
    /\ request_target = "local" =>
          /\ netns = None
          /\ (pc = "test" /\ ops = 0) => namespaces = <<>>

\* target mode netns, a test body that did nothing, teardown has returned
C11_Witness ==
    /\ request_target = "netns"
    /\ ops = 0
    /\ pc = "done"
    /\ Removals(netns) = 1

\* the namespace recorded for an interface name
Recorded(ifname) ==
    (CHOOSE i \in 1..Len(interfaces) : interfaces[i].key = ifname)

\* C12: teardown looks an interface up and deletes it through a handle
\* scoped to the namespace recorded for it; and when teardown has returned,
\* an interface registered as bound to a namespace that is not itself
\* registered does not exist in that namespace.
C12_BoundInterfaceDeletedInItsNamespace ==
    /\ \A i \in 1..Len(log) :
          (log[i].step = "interfaces" /\ log[i].op \in {"lookup", "del"}) =>
              /\ log[i].a \in Keys(interfaces)
              /\ log[i].b = interfaces[Recorded(log[i].a)].value
    /\ pc = "done" =>
          \A i \in 1..Len(interfaces) :
              (/\ interfaces[i].value # None
               /\ interfaces[i].value \notin Keys(namespaces)) =>
                  <<interfaces[i].value, interfaces[i].key>> \notin links

\* an interface bound to an unregistered namespace existed and teardown has
\* deleted it there
C12_Witness ==
    /\ pc = "done"
    /\ \E i \in 1..Len(interfaces) :
          /\ interfaces[i].value = OtherName
          /\ OtherName \notin Keys(namespaces)
          /\ \E j \in 1..Len(log) :
                /\ log[j].op = "del"
                /\ log[j].a = interfaces[i].key
                /\ log[j].b = OtherName

\* the skip outcome with a reason, and the message an exception carries
SkipOutcome(reason) == Raises("Skipped", 0, <<reason>>)
Message(o) == IF o.args = <<>> THEN "" ELSE o.args[1]

\* C13 (as claimed): under skip_if_not_supported a normal return is passed
\* through; a NetlinkError with code EOPNOTSUPP or ENOENT becomes a skip
\* with reason 'feature not supported by platform'; a NetlinkError with
\* another code is re-raised unchanged; a RuntimeError becomes a skip with
\* its message; every other error, the 'not implemented' error among them,
\* propagates unchanged.
C13_UnsupportedGuardMapping ==
    wrapped.guard = "skip_if_not_supported" =>
        LET f == wrapped.func
            w == wrapped.test_wrapper
        IN  IF f.kind = "NetlinkError"
            THEN IF f.code \in {EOPNOTSUPP, ENOENT}
                 THEN w = SkipOutcome("feature not supported by platform")
                 ELSE w = f
            ELSE IF f.kind = "RuntimeError"
            THEN w = SkipOutcome(Message(f))
            ELSE w = f

\* C13 (amended): as above, but the 'not implemented' error is a runtime
\* failure too and becomes a skip with its message; the errors that
\* propagate unchanged are those that are neither a NetlinkError nor a
\* runtime failure.
C13_UnsupportedGuardCatchesSubclasses ==
    wrapped.guard = "skip_if_not_supported" =>
        LET f == wrapped.func
            w == wrapped.test_wrapper
        IN  IF f.kind = "NetlinkError"
            THEN IF f.code \in {EOPNOTSUPP, ENOENT}
                 THEN w = SkipOutcome("feature not supported by platform")
                 ELSE w = f
            ELSE IF f.kind \in {"RuntimeError", "NotImplementedError"}
            THEN w = SkipOutcome(Message(f))
            ELSE w = f

\* the guard has turned a 'not implemented' error into a skip with its message
C13_Witness ==
    /\ wrapped.guard = "skip_if_not_supported"
    /\ wrapped.func = Raises("NotImplementedError", 0, <<"message">>)
    /\ wrapped.test_wrapper = SkipOutcome("message")

\* C14: under skip_if_not_implemented an AttributeError or a
\* NotImplementedError becomes a skip with reason 'feature not
\* implemented', a normal return is passed through with its value, and
\* every other error propagates unchanged.
C14_UnimplementedGuardMapping ==
    wrapped.guard = "skip_if_not_implemented" =>
        LET f == wrapped.func
            w == wrapped.test_wrapper
        IN  IF f.kind \in {"AttributeError", "NotImplementedError"}
            THEN w = SkipOutcome("feature not implemented")
            ELSE w = f

\* the guard has let a RuntimeError through, inside another guard or not
C14_Witness ==
    /\ wrapped.guard = "skip_if_not_implemented"
    /\ wrapped.func.kind = "RuntimeError"
    /\ wrapped.test_wrapper = wrapped.func

\* every key of the dict old is a key of the dict new, at the same position
KeepsKeys(old, new) ==
    /\ Len(old) <= Len(new)
    /\ \A i \in 1..Len(old) : new[i].key = old[i].key

\* the list old is the beginning of the list new
IsPrefix(old, new) ==
    /\ Len(old) <= Len(new)
    /\ \A i \in 1..Len(old) : new[i] = old[i]

\* C15 (as claimed): when teardown has completed, every registry
\* (interfaces, namespaces, rules, networks) is empty.
C15_RegistriesDrained ==
    pc = "done" =>
        /\ interfaces = <<>>
        /\ namespaces = <<>>
        /\ rules = <<>>
        /\ \A f \in Families : allocated_networks[f] = <<>>

\* C15 (amended): no step of a context, of the test body or of teardown,
\* removes an entry from a registry: the interface and namespace names stay
\* where they are, the rules and the networks of a family are extended at
\* the end only.  The registries hold their entries after teardown.
C15_RegistriesKeepEntries ==
    [][ctx' = ctx =>
          /\ KeepsKeys(interfaces, interfaces')
          /\ KeepsKeys(namespaces, namespaces')
          /\ IsPrefix(rules, rules')
          /\ \A f \in Families :
                IsPrefix(allocated_networks[f], allocated_networks'[f])]_vars

\* teardown has completed on a context with an entry in every registry
C15_Witness ==
    /\ pc = "done"
    /\ interfaces # <<>>
    /\ namespaces # <<>>
    /\ rules # <<>>
    /\ \E f \in Families : allocated_networks[f] # <<>>

\* the latest call failed with a code the loop does not ignore
FatalIn(step) ==
    /\ last.res = "raise"
    /\ IF step = "interfaces"
       THEN last.op \in {"lookup", "del"} /\ last.code # ENODEV
       ELSE last.op = "rule" /\ last.code # ENOENT

\* C16: when a lookup or delete of an interface has failed with a code
\* other than ENODEV, or the delete of a rule with a code other than ENOENT,
\* teardown has raised that NetlinkError to its caller, and the entries of
\* that registry attempted are those up to the failing one: no later entry
\* has been or will be attempted.
C16_FailFastWithinStep ==
    \A step \in {"interfaces", "rules"} :
        FatalIn(step) =>
            /\ pc = "raised"
            /\ exc = NetlinkError(last.code)
            /\ Len(Attempts(step)) = idx
            /\ Last(log).step = step
            /\ ~ENABLED (interface_open \/ rule_open)

\* the delete of an interface has failed fatally with an entry after it
C16_Witness ==
    /\ FatalIn("interfaces")
    /\ last.op = "del"
    /\ pc = "raised"
    /\ idx < Len(interfaces)

\* the opens and closes of per-iteration handles so far, in order
HandleEvents == SelectOp(log, {"open", "close"})

\* C17: in the interface and rule loops of teardown the opens and closes of
\* per-iteration handles alternate, starting with an open, and each close
\* closes the handle opened just before it: a handle is closed once and at
\* most one is open.  A handle is open only inside the iteration that has
\* opened it; none is open when teardown has returned or raised.
C17_IterationHandleClosedOnce ==
    LET h == HandleEvents
    IN  /\ \A i \in 1..Len(h) :
              /\ h[i].step \in {"interfaces", "rules"}
              /\ h[i].op = (IF i % 2 = 1 THEN "open" ELSE "close")
              /\ i % 2 = 0 =>
                    h[i].a = h[i - 1].a /\ h[i].step = h[i - 1].step
        /\ ipr # NoHandle <=> Len(h) % 2 = 1
        /\ ipr # NoHandle =>
              /\ pc \in {"interfaces", "rules"}
              /\ sub # "open"
              /\ h[Len(h)].a = ipr
              /\ h[Len(h)].step = pc
        /\ pc \in {"done", "raised"} => Len(h) % 2 = 0

\* a rule delete has failed fatally after an interface iteration: both
\* handles are closed
C17_Witness ==
    /\ pc = "raised"
    /\ FatalIn("rules")
    /\ Len(HandleEvents) >= 4
    /\ Last(log).op = "close"

\* what no registration call touches: the kernel's interfaces, the calls
\* to collaborators (the owned handles among them), the address pools and
\* the fields set at construction
Untouched ==
    UNCHANGED <<links, log, last, ipam, context, pc, loop, exc, netcalls,
                freed>>

\* C18: a call of register changes the interface registry only, a call of
\* register_netns the namespace registry only, a call of register_rule the
\* rule registry only, by appending (namespace, spec), and it returns the
\* spec; none of them changes the kernel's interfaces, calls a
\* collaborator, or changes the address pools.
C18_RegistrationIsBookkeeping ==
    [][/\ (\E ifname \in IfnameArgs, nsname \in NetnsArgs :
              register(ifname, nsname)) =>
                 Untouched /\ UNCHANGED <<namespaces, rules>>
       /\ (\E nsname \in NetnsArgs : register_netns(nsname)) =>
                 Untouched /\ UNCHANGED <<interfaces, rules>>
       /\ \A spec \in RuleSpecs, nsname \in NetnsArgs :
              register_rule(spec, nsname) =>
                 /\ Untouched /\ UNCHANGED <<interfaces, namespaces>>
                 /\ rules' = Append(rules, <<nsname, spec>>)
                 /\ result'.name = spec]_vars

\* register_rule has returned its spec, as the second operation of a test
\* body; no collaborator has been called
C18_Witness ==
    /\ result.op = "register_rule"
    /\ result.name \in RuleSpecs
    /\ rules # <<>>
    /\ ops >= 2
    /\ pc = "test"
    /\ log = <<>>

\* teardown's calls link('del') for an interface name through a handle
Deletes(ifname, handle) ==
    {i \in 1..Len(log) :
        log[i].op = "del" /\ log[i].a = ifname /\ log[i].b = handle}

\* C19: a context of a privileged principal has a default interface with a
\* generated name, recorded first in the interface registry without a
\* namespace, with an index of its own, and created at construction in the
\* namespace of the context's source; when teardown has returned (and the
\* test body has not re-registered the name under a namespace) it exists no
\* more: with target mode local the interface loop has deleted it through
\* the default handle, with target mode netns it has gone with the
\* context's namespace.  A context of an unprivileged principal has the
\* default interface (1, 'lo'), an empty interface registry and no
\* interface created after construction, and teardown looks up or deletes
\* 'lo' only if the test body has registered it.
C19_DefaultInterface ==
    LET ifname == default_interface.ifname
    IN  /\ root =>
              /\ \E u \in 1..uid : ifname = uifname(u)
              /\ default_interface.index # LoIndex
              /\ interfaces # <<>>
              /\ interfaces[1].key = ifname
              /\ (pc = "test" /\ ops = 0) =>
                    /\ interfaces = <<[key |-> ifname, value |-> None]>>
                    /\ links = {<<netns, ifname>>}
              /\ (pc = "done" /\ interfaces[1].value = None) =>
                    /\ <<netns, ifname>> \notin links
                    /\ request_target = "local" =>
                          Cardinality(Deletes(ifname, None)) = 1
        /\ ~root =>
              /\ default_interface = [index |-> LoIndex, ifname |-> LoName]
              /\ (pc = "test" /\ ops = 0) =>
                    interfaces = <<>> /\ links = {}
              /\ LoName \notin Keys(interfaces) =>
                    \A i \in 1..Len(log) :
                        log[i].op \in {"lookup", "del"} => log[i].a # LoName

\* teardown has returned after deleting the default interface of a
\* privileged principal through the default handle
C19_Witness ==
    /\ root
    /\ request_target = "local"
    /\ pc = "done"
    /\ Deletes(default_interface.ifname, None) # {}
    /\ links = {}

\* teardown's lookups of an interface name
Lookups(ifname) ==
    {i \in 1..Len(log) : log[i].op = "lookup" /\ log[i].a = ifname}

\* after a call register(ifname, nsname): the name it has returned is
\* recorded with nsname, and a name that was present has not added an entry
Replaces(nsname) ==
    LET name == result'.name
    IN  /\ \E i \in 1..Len(interfaces') :
              interfaces'[i] = [key |-> name, value |-> nsname]
        /\ name \in Keys(interfaces) =>
              /\ Len(interfaces') = Len(interfaces)
              /\ Keys(interfaces') = Keys(interfaces)

\* C20: the interface registry has at most one entry per name, whatever the
\* register calls; a call of register with a name that is present replaces
\* the namespace recorded for it and adds no entry; and teardown looks a
\* name up at most once, exactly once when it has returned, through the
\* handle of the namespace recorded last.
C20_OneEntryPerInterfaceName ==
    /\ [](/\ \A i, j \in 1..Len(interfaces) :
                interfaces[i].key = interfaces[j].key => i = j
          /\ \A i \in 1..Len(interfaces) :
                LET k == Lookups(interfaces[i].key)
                IN  /\ Cardinality(k) <= 1
                    /\ pc = "done" => Cardinality(k) = 1
                    /\ \A n \in k : log[n].b = interfaces[i].value)
    /\ [][\A ifname \in IfnameArgs, nsname \in NetnsArgs :
              register(ifname, nsname) => Replaces(nsname)]_vars

\* a name has been registered a second time, with a namespace, and teardown
\* has looked it up once, through the handle of that namespace
C20_Witness ==
    /\ pc = "done"
    /\ result.op = "register"
    /\ result.name \in returned
    /\ \E i \in 1..Len(interfaces) :
          /\ interfaces[i] = [key |-> result.name, value |-> OtherName]
          /\ Cardinality(Lookups(result.name)) = 1

====
